---- MODULE Spec2Model ----
(***************************************************************************)
(* meta-aggregator (src/app.py): the cross-tournament aggregation run of   *)
(* aggregate_tournaments_with_matchups and its caller index().             *)
(*                                                                         *)
(* One run: fold every tournament's overall / day-2 / conversion records   *)
(* into per-deck accumulators, build one scored row per qualifying deck,   *)
(* pick the meta pool, fetch every matchup page of every pool deck and     *)
(* accumulate it symmetrically, then score and sort.                       *)
(***************************************************************************)
EXTENDS Integers, Sequences, FiniteSets, TLC

(***************************************************************************)
(* Python floats.  The scores are binary floating-point numbers; every     *)
(* operation rounds its exact result to the nearest representable value,   *)
(* ties to even.  A float is held as an integer count of 2^-FracBits whose *)
(* significand has at most MantBits bits (binary64 has 53 bits and counts  *)
(* 2^-1074); values below 2^(MantBits - FracBits) are subnormal.           *)
(***************************************************************************)
MantBits == 7
FracBits == 10

RECURSIVE Pow2(_)
Pow2(n) == IF n <= 0 THEN 1 ELSE 2 * Pow2(n - 1)

RECURSIVE BitLen(_)
BitLen(n) == IF n <= 0 THEN 0 ELSE 1 + BitLen(n \div 2)

Abs(n) == IF n < 0 THEN -n ELSE n

\* the spacing of the representable values around magnitude q
Ulp(q) == IF BitLen(q) <= MantBits THEN 1 ELSE Pow2(BitLen(q) - MantBits)

\* n/d (d > 0) rounded to the nearest representable value, ties to even
RoundRat(n, d) ==
    LET a  == Abs(n)
        u  == Ulp(a \div d)
        du == d * u
        m  == a \div du
        r  == a % du
        up == (2 * r > du) \/ (2 * r = du /\ m % 2 = 1)
        k  == (IF up THEN m + 1 ELSE m) * u
    IN  IF n < 0 THEN -k ELSE k

FromInt(n) == RoundRat(n * Pow2(FracBits), 1)
\* a decimal literal num/den of the source text, e.g. 0.4 = Lit(4, 10)
Lit(num, den) == RoundRat(num * Pow2(FracBits), den)
FAdd(x, y) == RoundRat(x + y, 1)
FSub(x, y) == RoundRat(x - y, 1)
FMul(x, y) == RoundRat(x * y, Pow2(FracBits))
\* y > 0 at every use (games, player totals, day-1 counts)
FDiv(x, y) == RoundRat(x * Pow2(FracBits), y)


(***************************************************************************)
(* Deck names are strings; a name is held as its sequence of characters.   *)
(* Two records are the same deck iff their names are equal.                *)
(***************************************************************************)
NameA  == <<"A">>
NameBA == <<"B", "A">>
NameC  == <<"C">>
NameD  == <<"D">>
DeckNames == {NameA, NameBA, NameC, NameD}

\* str.lower() of one character (re.IGNORECASE compares case-folded text)
Lower(ch) ==
    CASE ch = "A" -> "a"
      [] ch = "B" -> "b"
      [] ch = "C" -> "c"
      [] ch = "D" -> "d"
      [] OTHER    -> ch

LowerName(name) == [i \in 1..Len(name) |-> Lower(name[i])]

(***************************************************************************)
(* What the pages of a tournament hold, as the extract_* functions return  *)
(* it: the records of a page in first-match order.  win_pct, share and     *)
(* conv_pct are the percentages printed on the page.                       *)
(***************************************************************************)
Summary(deck, players, wins, losses, ties, pct) ==
    [deck |-> deck, players |-> players, share |-> 10,
     wins |-> wins, losses |-> losses, ties |-> ties, win_pct |-> pct]

Conversion(deck, day1, day2, pct) ==
    [deck |-> deck, day1_players |-> day1, day2_players |-> day2, conv_pct |-> pct]

\* The main pages: the records and the <a href> elements of each.  An anchor
\* has the deck id of its path (slug), its visible text, and whether its
\* path holds this tournament's /<tid>/decks/ segment (own).
OverallPages ==
    << [records |-> << Summary(NameA, 3, 2, 1, 1, 62),
                       Summary(NameBA, 2, 1, 1, 0, 50),
                       Summary(NameC, 2, 0, 2, 1, 17) >>,
        anchors |-> << [slug |-> "nav", text |-> <<"Decks">>, own |-> TRUE],
                       [slug |-> "a", text |-> NameA, own |-> TRUE],
                       [slug |-> "ba", text |-> NameBA, own |-> TRUE] >>],
       [records |-> << Summary(NameC, 2, 1, 1, 0, 50),
                       Summary(NameA, 3, 1, 1, 0, 50) >>,
        anchors |-> << [slug |-> "c", text |-> NameC, own |-> TRUE],
                       [slug |-> "c2", text |-> NameC, own |-> TRUE],
                       [slug |-> "a", text |-> NameA, own |-> FALSE] >>],
       [records |-> << Summary(NameBA, 1, 0, 0, 0, 0),
                       Summary(NameA, 1, 0, 1, 0, 0),
                       Summary(NameBA, 1, 0, 0, 0, 0) >>,
        anchors |-> << [slug |-> "ba", text |-> NameBA, own |-> TRUE],
                       [slug |-> "x", text |-> <<>>, own |-> TRUE] >>],
       [records |-> << Summary(NameA, 4, 2, 1, 0, 67),
                       Summary(NameBA, 3, 1, 2, 0, 33),
                       Summary(NameC, 2, 1, 1, 1, 50),
                       Summary(NameD, 1, 0, 1, 0, 0) >>,
        anchors |-> << [slug |-> "d", text |-> NameD, own |-> TRUE] >>] >>

\* The ?day=2 and ?conversion= pages of a tournament.
DetailPages ==
    << [day2       |-> << >>,
        conversion |-> << Conversion(NameBA, 2, 2, 100) >>],
       [day2       |-> << Summary(NameA, 1, 1, 0, 0, 100),
                          Summary(NameC, 1, 0, 0, 0, 0),
                          Summary(NameBA, 1, 0, 1, 1, 25) >>,
        conversion |-> << Conversion(NameA, 3, 1, 33),
                          Conversion(NameC, 0, 0, 0) >>] >>

\* A tournament id names its pages.
TournamentIds == (1..Len(OverallPages)) \X (1..Len(DetailPages))

(***************************************************************************)
(* The accumulators are dicts; a dict is held as the sequence of its       *)
(* entries in insertion order, which is the order Python iterates it in.   *)
(***************************************************************************)
Has(d, k) == \E i \in 1..Len(d) : d[i].deck = k
At(d, k) == d[CHOOSE i \in 1..Len(d) : d[i].deck = k]
Keys(d) == {d[i].deck : i \in 1..Len(d)}

ZeroStats(k) == [deck |-> k, wins |-> 0, losses |-> 0, ties |-> 0, players |-> 0]
ZeroConv(k) == [deck |-> k, day1 |-> 0, day2 |-> 0]

\* the record assigned to the bucket instead of added to it
AddSummaryAssign(stats, r) ==
    LET d == IF Has(stats, r.deck) THEN stats ELSE Append(stats, ZeroStats(r.deck))
    IN  [i \in 1..Len(d) |->
            IF d[i].deck = r.deck
            THEN [d[i] EXCEPT !.wins = r.wins, !.losses = r.losses,
                              !.ties = r.ties, !.players = r.players]
            ELSE d[i]]

\* stats[name][...] += ... of one summary record; a missing key is created
\* by the defaultdict on first access
AddSummary(stats, r) ==
    LET d == IF Has(stats, r.deck) THEN stats ELSE Append(stats, ZeroStats(r.deck))
    IN  [i \in 1..Len(d) |->
            IF d[i].deck = r.deck
            THEN [d[i] EXCEPT !.wins = @ + r.wins, !.losses = @ + r.losses,
                              !.ties = @ + r.ties, !.players = @ + r.players]
            ELSE d[i]]

AddConversion(stats, c) ==
    LET d == IF Has(stats, c.deck) THEN stats ELSE Append(stats, ZeroConv(c.deck))
    IN  [i \in 1..Len(d) |->
            IF d[i].deck = c.deck
            THEN [d[i] EXCEPT !.day1 = @ + c.day1_players, !.day2 = @ + c.day2_players]
            ELSE d[i]]

RECURSIVE FoldSummaries(_, _)
FoldSummaries(stats, records) ==
    IF records = <<>> THEN stats
    ELSE FoldSummaries(AddSummary(stats, Head(records)), Tail(records))

RECURSIVE FoldConversions(_, _)
FoldConversions(stats, records) ==
    IF records = <<>> THEN stats
    ELSE FoldConversions(AddConversion(stats, Head(records)), Tail(records))

\* the navigation keywords an anchor text must not contain
IsNavigation(text) ==
    \E i \in 1..Len(text) : text[i] \in {"Decks", "Players", "Conversion"}

\* extract_deck_urls: name -> url, the first url of a name wins
RECURSIVE ExtractDeckUrls(_, _, _)
ExtractDeckUrls(anchors, tid, deck_urls) ==
    IF anchors = <<>> THEN deck_urls
    ELSE LET a == Head(anchors)
             skip == ~a.own \/ a.text = <<>> \/ IsNavigation(a.text)
                     \/ a.text \in DOMAIN deck_urls
         IN  ExtractDeckUrls(Tail(anchors), tid,
                IF skip THEN deck_urls
                ELSE deck_urls @@ (a.text :> <<tid, a.slug>>))

NoUrls == [x \in {} |-> <<>>]

\* fetch_tournament_data_with_links, all three pages fetched
TournamentData(tid) ==
    [overall    |-> OverallPages[tid[1]].records,
     deck_urls  |-> ExtractDeckUrls(OverallPages[tid[1]].anchors, tid, NoUrls),
     day2       |-> DetailPages[tid[2]].day2,
     conversion |-> DetailPages[tid[2]].conversion]

\* deck_urls_global[name].add(url) for every overall record whose deck has
\* an anchor
RECURSIVE FoldUrls(_, _, _)
FoldUrls(urls, records, deck_urls) ==
    IF records = <<>> THEN urls
    ELSE LET name == Head(records).deck
         IN  FoldUrls(IF name \in DOMAIN deck_urls
                      THEN [urls EXCEPT ![name] = @ \cup {deck_urls[name]}]
                      ELSE urls,
                      Tail(records), deck_urls)


(***************************************************************************)
(* Stage 2: one row per qualifying deck.  An optional float (None or a     *)
(* value) is held as the empty or the one-element sequence.                *)
(***************************************************************************)
None == <<>>
Some(x) == <<x>>

\* (wins + 0.5 * ties) / games * 100, games > 0
WinPct(wins, ties, games) ==
    FMul(FDiv(FAdd(FromInt(wins), FMul(Lit(5, 10), FromInt(ties))), FromInt(games)),
         FromInt(100))

Day2WinPct(day2_stats, deck) ==
    IF Has(day2_stats, deck)
    THEN LET d2 == At(day2_stats, deck)
             games_d2 == d2.wins + d2.losses + d2.ties
         IN  IF games_d2 > 0 THEN Some(WinPct(d2.wins, d2.ties, games_d2)) ELSE None
    ELSE None

PlayersDay2(day2_stats, deck) ==
    IF Has(day2_stats, deck) THEN At(day2_stats, deck).players ELSE 0

ConvPct(conv_stats, deck) ==
    IF Has(conv_stats, deck) /\ At(conv_stats, deck).day1 > 0
    THEN LET c == At(conv_stats, deck)
         IN  Some(FMul(FDiv(FromInt(c.day2), FromInt(c.day1)), FromInt(100)))
    ELSE None

\* a missing component scored as zero instead of by its neutral prior
BaseScoreZeroPrior(overall_win_pct, day2_win_pct, conv_pct) ==
    LET d2_win_for_score == IF day2_win_pct # None THEN day2_win_pct[1] ELSE 0
        conv_for_score   == IF conv_pct # None THEN conv_pct[1] ELSE 0
    IN  FAdd(FAdd(FMul(Lit(4, 10), overall_win_pct),
                  FMul(Lit(4, 10), d2_win_for_score)),
             FMul(Lit(2, 10), conv_for_score))

\* w_overall * overall_win_pct + w_day2 * d2_win_for_score + w_conv * conv_for_score
BaseScore(overall_win_pct, day2_win_pct, conv_pct) ==
    LET d2_win_for_score == IF day2_win_pct # None THEN day2_win_pct[1] ELSE overall_win_pct
        conv_for_score   == IF conv_pct # None THEN conv_pct[1] ELSE FromInt(50)
    IN  FAdd(FAdd(FMul(Lit(4, 10), overall_win_pct),
                  FMul(Lit(4, 10), d2_win_for_score)),
             FMul(Lit(2, 10), conv_for_score))

\* the player test compared against the record's games instead
QualifiesByGames(o, minp) ==
    /\ ~(o.wins + o.losses + o.ties < minp)
    /\ ~(o.wins + o.losses + o.ties <= 0)

\* the two `continue`s of the row loop
Qualifies(o, minp) ==
    /\ ~(o.players < minp)
    /\ ~(o.wins + o.losses + o.ties <= 0)

BaseRow(o, day2_stats, conv_stats) ==
    LET overall_win_pct == WinPct(o.wins, o.ties, o.wins + o.losses + o.ties)
        day2_win_pct    == Day2WinPct(day2_stats, o.deck)
        conv_pct        == ConvPct(conv_stats, o.deck)
    IN  [deck            |-> o.deck,
         players_overall |-> o.players,
         overall_win_pct |-> overall_win_pct,
         players_day2    |-> PlayersDay2(day2_stats, o.deck),
         day2_win_pct    |-> day2_win_pct,
         conv_pct        |-> conv_pct,
         base_score      |-> BaseScore(overall_win_pct, day2_win_pct, conv_pct)]

RECURSIVE BuildBaseRows(_, _, _, _)
BuildBaseRows(stats, day2_stats, conv_stats, minp) ==
    IF stats = <<>> THEN <<>>
    ELSE LET o == Head(stats)
             rest == BuildBaseRows(Tail(stats), day2_stats, conv_stats, minp)
         IN  IF Qualifies(o, minp)
             THEN <<BaseRow(o, day2_stats, conv_stats)>> \o rest
             ELSE rest

\* list.sort(key=..., reverse=True): descending, and stable (equal keys keep
\* the order they had)
InsertDesc(sorted, i, keys) ==
    LET n == Cardinality({j \in 1..Len(sorted) : keys[sorted[j]] >= keys[i]})
    IN  SubSeq(sorted, 1, n) \o <<i>> \o SubSeq(sorted, n + 1, Len(sorted))

\* the positions 1..Len(keys) in sorted order, built by stable insertion
RECURSIVE SortDescFrom(_, _, _)
SortDescFrom(sorted, i, keys) ==
    IF i > Len(keys) THEN sorted
    ELSE SortDescFrom(InsertDesc(sorted, i, keys), i + 1, keys)

SortDesc(rows, keys) ==
    LET perm == SortDescFrom(<<>>, 1, keys)
    IN  [j \in 1..Len(rows) |-> rows[perm[j]]]

SortByPlayers(rows) ==
    SortDesc(rows, [i \in 1..Len(rows) |-> rows[i].players_overall])

\* sorted ascending and then reversed: descending, equal keys in reverse
SortByFinalScoreReversed(rows) ==
    LET n == Len(rows)
        asc == SortDesc(rows, [i \in 1..n |-> -rows[i].final_score])
    IN  [i \in 1..n |-> asc[n + 1 - i]]

SortByFinalScore(rows) ==
    SortDesc(rows, [i \in 1..Len(rows) |-> rows[i].final_score])

(***************************************************************************)
(* Stage 3: the meta pool and the weights.                                 *)
(***************************************************************************)
\* seq[:k] of Python: the first k elements, or all but the last -k when k < 0
Slice(seq, k) ==
    LET n == IF k >= 0 THEN (IF k < Len(seq) THEN k ELSE Len(seq))
             ELSE (IF Len(seq) + k > 0 THEN Len(seq) + k ELSE 0)
    IN  SubSeq(seq, 1, n)

MetaDecks(rows, k) == {Slice(rows, k)[i].deck : i \in 1..Len(Slice(rows, k))}

RECURSIVE SumPlayers(_, _)
SumPlayers(rows, pool) ==
    IF rows = <<>> THEN 0
    ELSE (IF Head(rows).deck \in pool THEN Head(rows).players_overall ELSE 0)
         + SumPlayers(Tail(rows), pool)

\* meta_weight: a key for each pool deck when the pool has players at all
MetaWeight(rows, pool) ==
    LET total_players_meta == SumPlayers(rows, pool)
        keys == IF total_players_meta > 0 THEN pool ELSE {}
    IN  [d \in keys |->
            LET row == rows[CHOOSE i \in 1..Len(rows) : rows[i].deck = d]
            IN  FDiv(FromInt(row.players_overall), FromInt(total_players_meta))]


(***************************************************************************)
(* Stage 4: the matchup pages.  A page is the sequence of its rows         *)
(* <NAME> <N> <W> - <L> - <T> <WIN%>% in text order.                       *)
(***************************************************************************)
Row(name, wins, losses, ties) ==
    [name |-> name, wins |-> wins, losses |-> losses, ties |-> ties, win_pct |-> 50]

\* the texts a /matchups page may hold
MatchupPages ==
    << << Row(NameBA, 2, 1, 0), Row(NameA, 1, 0, 1), Row(NameC, 0, 0, 0) >>,
       << Row(<<"c">>, 1, 2, 0), Row(NameA, 0, 1, 0), Row(NameD, 2, 0, 1),
          Row(NameBA, 1, 0, 1) >> >>

\* re.escape(opp) + r"\s+(\d+)..." with re.IGNORECASE matches in a row iff the
\* row's name ends with opp, cases folded
MatchesRow(opp, row) ==
    /\ Len(opp) <= Len(row.name)
    /\ LowerName(SubSeq(row.name, Len(row.name) - Len(opp) + 1, Len(row.name)))
         = LowerName(opp)

\* pattern.search: the first row of the text the pattern matches in
HasMatch(opp, page) == \E i \in 1..Len(page) : MatchesRow(opp, page[i])
FirstMatch(opp, page) ==
    page[CHOOSE i \in 1..Len(page) :
            /\ MatchesRow(opp, page[i])
            /\ \A j \in 1..(i - 1) : ~MatchesRow(opp, page[j])]

\* extract_matchups_from_html: the result dict, filled in the order the set
\* meta_decks is iterated in (order)
RECURSIVE ExtractMatchups(_, _, _)
ExtractMatchups(page, this_deck, order) ==
    IF order = <<>> THEN <<>>
    ELSE LET opp == Head(order)
             rest == ExtractMatchups(page, this_deck, Tail(order))
         IN  IF opp = this_deck \/ ~HasMatch(opp, page) THEN rest
             ELSE LET m == FirstMatch(opp, page)
                  IN  << [deck |-> opp, wins |-> m.wins, losses |-> m.losses,
                          ties |-> m.ties, win_pct |-> m.win_pct] >> \o rest

\* the cell assigned the record, what it held before dropped
AddCellAssign(agg, x, y, wins, losses, ties) ==
    LET inner == IF Has(agg[x], y) THEN agg[x]
                 ELSE Append(agg[x], [deck |-> y, wins |-> 0, losses |-> 0, ties |-> 0])
    IN  [agg EXCEPT ![x] =
            [i \in 1..Len(inner) |->
                IF inner[i].deck = y
                THEN [inner[i] EXCEPT !.wins = wins, !.losses = losses, !.ties = ties]
                ELSE inner[i]]]

\* matchups_agg[x][y][...] += ...: both defaultdicts create what is missing
AddCell(agg, x, y, wins, losses, ties) ==
    LET inner == IF Has(agg[x], y) THEN agg[x]
                 ELSE Append(agg[x], [deck |-> y, wins |-> 0, losses |-> 0, ties |-> 0])
    IN  [agg EXCEPT ![x] =
            [i \in 1..Len(inner) |->
                IF inner[i].deck = y
                THEN [inner[i] EXCEPT !.wins = @ + wins, !.losses = @ + losses,
                                      !.ties = @ + ties]
                ELSE inner[i]]]

\* the mirrored direction written without the swap of wins and losses
AddMatchupUnswapped(agg, deck, s) ==
    AddCell(AddCell(agg, deck, s.deck, s.wins, s.losses, s.ties),
            s.deck, deck, s.wins, s.losses, s.ties)

\* one record of a page: the page's direction, then the mirrored one
AddMatchup(agg, deck, s) ==
    AddCell(AddCell(agg, deck, s.deck, s.wins, s.losses, s.ties),
            s.deck, deck, s.losses, s.wins, s.ties)

RECURSIVE AddMatchups(_, _, _)
AddMatchups(agg, deck, per_tournament_matchups) ==
    IF per_tournament_matchups = <<>> THEN agg
    ELSE AddMatchups(AddMatchup(agg, deck, Head(per_tournament_matchups)),
                     deck, Tail(per_tournament_matchups))

(***************************************************************************)
(* Stage 5: matchup_score and final_score.                                 *)
(***************************************************************************)
\* matchup_score += weight_opp * delta, over m_vs.items() in dict order
RECURSIVE MatchupScore(_, _, _)
MatchupScore(acc, m_vs, weight) ==
    IF m_vs = <<>> THEN acc
    ELSE LET s == Head(m_vs)
             games == s.wins + s.losses + s.ties
             delta == FSub(WinPct(s.wins, s.ties, games), FromInt(50))
             weight_opp == IF s.deck \in DOMAIN weight THEN weight[s.deck] ELSE 0
         IN  MatchupScore(IF games <= 0 THEN acc ELSE FAdd(acc, FMul(weight_opp, delta)),
                          Tail(m_vs), weight)

FinalScore(base_score, beta, matchup_score) ==
    FAdd(base_score, FMul(beta, matchup_score))

ScoreRows(rows, agg, weight, beta) ==
    [i \in 1..Len(rows) |->
        LET ms == MatchupScore(0, agg[rows[i].deck], weight)
        IN  [deck            |-> rows[i].deck,
             players_overall |-> rows[i].players_overall,
             overall_win_pct |-> rows[i].overall_win_pct,
             players_day2    |-> rows[i].players_day2,
             day2_win_pct    |-> rows[i].day2_win_pct,
             conv_pct        |-> rows[i].conv_pct,
             base_score      |-> rows[i].base_score,
             matchup_score   |-> ms,
             final_score     |-> FinalScore(rows[i].base_score, beta, ms)]]


(***************************************************************************)
(* The run.  The inputs of aggregate_tournaments_with_matchups, its locals *)
(* and the locals of index() that receive what it returns.                 *)
(***************************************************************************)
VARIABLES
    tournament_ids,     \* the list of tournament ids
    min_players,
    meta_pool_size,
    matchup_weight,
    pc,                 \* the stage the run is in
    t,                  \* the position of the next tournament of the list
    overall_stats,
    day2_stats,
    conv_stats,
    deck_urls_global,   \* deck -> set of urls
    base_rows,
    meta_decks,         \* the set meta_decks, as the sequence it iterates in
    meta_weight,
    matchups_agg,       \* deck -> dict opp -> cell
    deck_i,             \* the position of `for deck in meta_decks`
    urls,               \* the urls of that deck not yet fetched
    fetched,            \* the matchup fetches made so far and what each returned
    results,            \* index(): the rows handed to the template
    error               \* index(): the error handed to the template

vars == <<tournament_ids, min_players, meta_pool_size, matchup_weight, pc, t,
          overall_stats, day2_stats, conv_stats, deck_urls_global, base_rows,
          meta_decks, meta_weight, matchups_agg, deck_i, urls, fetched,
          results, error>>

inputs == <<tournament_ids, min_players, meta_pool_size, matchup_weight>>

MaxTournaments == 2

\* the tournaments whose main page lists up to three decks
NarrowIds == {tid \in TournamentIds : tid[1] <= 3}

Lists(ids, n) == UNION {[1..k -> ids] : k \in 1..n}

Perms(S) == {f \in [1..Cardinality(S) -> S] : \A i, j \in DOMAIN f : f[i] = f[j] => i = j}

Locals ==
    /\ pc = "aggregate"
    /\ t = 1
    /\ overall_stats = <<>>
    /\ day2_stats = <<>>
    /\ conv_stats = <<>>
    /\ deck_urls_global = [d \in DeckNames |-> {}]
    /\ base_rows = <<>>
    /\ meta_decks = <<>>
    /\ meta_weight = <<>>
    /\ matchups_agg = [d \in DeckNames |-> <<>>]
    /\ deck_i = 0
    /\ urls = {}
    /\ fetched = <<>>
    /\ results = <<>>
    /\ error = "None"

Init ==
    /\ tournament_ids \in Lists(NarrowIds, MaxTournaments)
    /\ min_players \in {2, 4}
    /\ meta_pool_size \in {-1, 0, 2, 3}
    /\ matchup_weight \in {0, Lit(5, 10)}
    /\ Locals

\* a run over one tournament of four decks, all of them in the pool
WideIds == {tid \in TournamentIds : tid[1] = 4}

InitWide ==
    /\ tournament_ids \in Lists(WideIds, 1)
    /\ min_players \in {1, 2}
    /\ meta_pool_size \in {4, 20}
    /\ matchup_weight \in {0, Lit(5, 10)}
    /\ Locals

\* one pass of `for tid in tournament_ids`: the three pages load and their
\* records are folded
FoldTournament ==
    /\ pc = "aggregate"
    /\ t <= Len(tournament_ids)
    /\ LET data == TournamentData(tournament_ids[t])
       IN  /\ overall_stats' = FoldSummaries(overall_stats, data.overall)
           /\ deck_urls_global' = FoldUrls(deck_urls_global, data.overall, data.deck_urls)
           /\ day2_stats' = FoldSummaries(day2_stats, data.day2)
           /\ conv_stats' = FoldConversions(conv_stats, data.conversion)
    /\ t' = t + 1
    /\ UNCHANGED <<inputs, pc, base_rows, meta_decks, meta_weight, matchups_agg,
                   deck_i, urls, fetched, results, error>>

\* raise_for_status() raises on one of the three pages: nothing in
\* aggregate_tournaments_with_matchups catches it, index() does
TournamentFails ==
    /\ pc = "aggregate"
    /\ t <= Len(tournament_ids)
    /\ \E page \in {"main", "day2", "conversion"} : error' = page
    /\ pc' = "rendered"
    /\ UNCHANGED <<inputs, t, overall_stats, day2_stats, conv_stats, deck_urls_global,
                   base_rows, meta_decks, meta_weight, matchups_agg, deck_i, urls,
                   fetched, results>>

\* the rows built once the first tournament is folded, the rest of the list
\* left out
BuildRowsEarly ==
    /\ pc = "aggregate"
    /\ t > 1
    /\ base_rows' = SortByPlayers(
                        BuildBaseRows(overall_stats, day2_stats, conv_stats, min_players))
    /\ pc' = "meta"
    /\ UNCHANGED <<inputs, t, overall_stats, day2_stats, conv_stats, deck_urls_global,
                   meta_decks, meta_weight, matchups_agg, deck_i, urls, fetched,
                   results, error>>

\* stage 2 and the sort that prepares the pool
BuildRows ==
    /\ pc = "aggregate"
    /\ t > Len(tournament_ids)
    /\ base_rows' = SortByPlayers(
                        BuildBaseRows(overall_stats, day2_stats, conv_stats, min_players))
    /\ pc' = "meta"
    /\ UNCHANGED <<inputs, t, overall_stats, day2_stats, conv_stats, deck_urls_global,
                   meta_decks, meta_weight, matchups_agg, deck_i, urls, fetched,
                   results, error>>

\* stage 3; a set of strings iterates in an order the hash seed of the
\* process decides
SelectMeta ==
    /\ pc = "meta"
    /\ meta_decks' \in Perms(MetaDecks(base_rows, meta_pool_size))
    /\ meta_weight' = MetaWeight(base_rows, MetaDecks(base_rows, meta_pool_size))
    /\ pc' = "matchups"
    /\ UNCHANGED <<inputs, t, overall_stats, day2_stats, conv_stats, deck_urls_global,
                   base_rows, matchups_agg, deck_i, urls, fetched, results, error>>

\* `for deck in meta_decks`: urls = list(deck_urls_global.get(deck, []))
NextDeck ==
    /\ pc = "matchups"
    /\ urls = {}
    /\ deck_i < Len(meta_decks)
    /\ deck_i' = deck_i + 1
    /\ urls' = deck_urls_global[meta_decks[deck_i + 1]]
    /\ UNCHANGED <<inputs, pc, t, overall_stats, day2_stats, conv_stats,
                   deck_urls_global, base_rows, meta_decks, meta_weight, matchups_agg,
                   fetched, results, error>>

\* the page searched for every ranked deck, not for the pool decks only
FetchMatchupsAnyOpponent ==
    /\ pc = "matchups"
    /\ \E url \in urls, p \in 1..Len(MatchupPages) :
          LET deck == meta_decks[deck_i]
              per_tournament_matchups ==
                  ExtractMatchups(MatchupPages[p], deck,
                                  [i \in 1..Len(base_rows) |-> base_rows[i].deck])
          IN  /\ matchups_agg' = AddMatchups(matchups_agg, deck, per_tournament_matchups)
              /\ urls' = urls \ {url}
              /\ fetched' = Append(fetched, [deck |-> deck, url |-> url, page |-> p])
    /\ UNCHANGED <<inputs, pc, t, overall_stats, day2_stats, conv_stats,
                   deck_urls_global, base_rows, meta_decks, meta_weight, deck_i,
                   results, error>>

\* one pass of `for url in urls`, the fetch succeeding with some page text
FetchMatchups ==
    /\ pc = "matchups"
    /\ \E url \in urls, p \in 1..Len(MatchupPages) :
          LET deck == meta_decks[deck_i]
              per_tournament_matchups == ExtractMatchups(MatchupPages[p], deck, meta_decks)
          IN  /\ matchups_agg' = AddMatchups(matchups_agg, deck, per_tournament_matchups)
              /\ urls' = urls \ {url}
              /\ fetched' = Append(fetched, [deck |-> deck, url |-> url, page |-> p])
    /\ UNCHANGED <<inputs, pc, t, overall_stats, day2_stats, conv_stats,
                   deck_urls_global, base_rows, meta_decks, meta_weight, deck_i,
                   results, error>>

\* the fetch raising with no try around it: the exception reaches index()
FetchMatchupsRaises ==
    /\ pc = "matchups"
    /\ \E url \in urls :
          /\ urls' = urls \ {url}
          /\ fetched' = Append(fetched, [deck |-> meta_decks[deck_i], url |-> url, page |-> 0])
    /\ pc' = "rendered"
    /\ error' = "matchups"
    /\ UNCHANGED <<inputs, t, overall_stats, day2_stats, conv_stats,
                   deck_urls_global, base_rows, meta_decks, meta_weight, matchups_agg,
                   deck_i, results>>

\* one pass of `for url in urls`, the fetch raising: except ...: continue
FetchMatchupsFails ==
    /\ pc = "matchups"
    /\ \E url \in urls :
          /\ urls' = urls \ {url}
          /\ fetched' = Append(fetched, [deck |-> meta_decks[deck_i], url |-> url, page |-> 0])
    /\ UNCHANGED <<inputs, pc, t, overall_stats, day2_stats, conv_stats,
                   deck_urls_global, base_rows, meta_decks, meta_weight, matchups_agg,
                   deck_i, results, error>>

\* stage 5, the final sort and the return
Score ==
    /\ pc = "matchups"
    /\ urls = {}
    /\ deck_i = Len(meta_decks)
    /\ base_rows' = SortByFinalScore(
                        ScoreRows(base_rows, matchups_agg, meta_weight, matchup_weight))
    /\ pc' = "returned"
    /\ UNCHANGED <<inputs, t, overall_stats, day2_stats, conv_stats, deck_urls_global,
                   meta_decks, meta_weight, matchups_agg, deck_i, urls, fetched,
                   results, error>>

\* index(): an empty ranking is reported, else the top 10 are shown
Index ==
    /\ pc = "returned"
    /\ IF base_rows = <<>>
       THEN error' = "empty" /\ UNCHANGED results
       ELSE results' = Slice(base_rows, 10) /\ UNCHANGED error
    /\ pc' = "rendered"
    /\ UNCHANGED <<inputs, t, overall_stats, day2_stats, conv_stats, deck_urls_global,
                   base_rows, meta_decks, meta_weight, matchups_agg, deck_i, urls,
                   fetched>>

Next ==
    \/ FoldTournament
    \/ TournamentFails
    \/ BuildRows
    \/ SelectMeta
    \/ NextDeck
    \/ FetchMatchups
    \/ FetchMatchupsFails
    \/ Score
    \/ Index

Spec == Init /\ [][Next]_vars
SpecWide == InitWide /\ [][Next]_vars

(***************************************************************************)
(* C1.  Matchup symmetry: in every state of the run, between any two page  *)
(* contributions and after failed fetches too, whenever cell(X,Y) or       *)
(* cell(Y,X) exists both exist, and cell(X,Y).wins = cell(Y,X).losses,     *)
(* cell(X,Y).losses = cell(Y,X).wins and cell(X,Y).ties = cell(Y,X).ties.  *)
(***************************************************************************)
C1_MatchupSymmetry ==
    \A x \in DeckNames, y \in DeckNames :
        (Has(matchups_agg[x], y) \/ Has(matchups_agg[y], x)) =>
            /\ Has(matchups_agg[x], y)
            /\ Has(matchups_agg[y], x)
            /\ At(matchups_agg[x], y).wins = At(matchups_agg[y], x).losses
            /\ At(matchups_agg[x], y).losses = At(matchups_agg[y], x).wins
            /\ At(matchups_agg[x], y).ties = At(matchups_agg[y], x).ties

\* mid-stage, after a failed and two successful fetches, a lopsided cell
C1_Witness ==
    /\ pc = "matchups"
    /\ urls # {}
    /\ \E i, j, k \in 1..Len(fetched) :
          i # j /\ fetched[i].page # 0 /\ fetched[j].page # 0 /\ fetched[k].page = 0
    /\ \E x \in DeckNames, y \in DeckNames :
          /\ Has(matchups_agg[x], y)
          /\ At(matchups_agg[x], y).wins > At(matchups_agg[x], y).losses

(***************************************************************************)
(* The records the tournaments folded so far hold, and their totals per    *)
(* deck, taken over the set of records in no particular order.             *)
(***************************************************************************)
RECURSIVE SumOver(_, _)
SumOver(f, S) ==
    IF S = {} THEN 0
    ELSE LET x == CHOOSE x \in S : TRUE
         IN  f[x] + SumOver(f, S \ {x})

\* the records the page of feed `kind` of tournament tid holds
Feed(kind, tid) ==
    CASE kind = "overall"    -> OverallPages[tid[1]].records
      [] kind = "day2"       -> DetailPages[tid[2]].day2
      [] kind = "conversion" -> DetailPages[tid[2]].conversion

\* the records of feed `kind` of the first n tournaments, as <<tournament
\* position, record position>>, that name `deck`
RecordsOf(kind, deck, n) ==
    UNION {{<<i, j>> : j \in {j \in 1..Len(Feed(kind, tournament_ids[i])) :
                                 Feed(kind, tournament_ids[i])[j].deck = deck}}
           : i \in 1..n}

Total(kind, field, deck, n) ==
    LET recs == RecordsOf(kind, deck, n)
    IN  SumOver([p \in recs |-> Feed(kind, tournament_ids[p[1]])[p[2]][field]], recs)

\* the accumulators after folding the tournaments at positions order[1],
\* order[2], ... of the list, starting from empty accumulators
RECURSIVE FoldInOrder(_, _)
FoldInOrder(acc, order) ==
    IF order = <<>> THEN acc
    ELSE LET tid == tournament_ids[Head(order)]
         IN  FoldInOrder([overall |-> FoldSummaries(acc.overall, Feed("overall", tid)),
                          day2    |-> FoldSummaries(acc.day2, Feed("day2", tid)),
                          conv    |-> FoldConversions(acc.conv, Feed("conversion", tid))],
                         Tail(order))

Entries(d) == {d[i] : i \in 1..Len(d)}

\* the urls the main pages of the first n tournaments give `deck`, from the
\* tournaments whose overall records name it
UrlsOf(deck, n) ==
    {TournamentData(tournament_ids[i]).deck_urls[deck] :
        i \in {i \in 1..n : /\ deck \in DOMAIN TournamentData(tournament_ids[i]).deck_urls
                            /\ RecordsOf("overall", deck, i) # RecordsOf("overall", deck, i - 1)}}

\* the accumulators hold the first n tournaments of the list, whole, and
\* nothing else
AccumulatorsHold(n) ==
    \A deck \in DeckNames :
        /\ Has(overall_stats, deck) <=> RecordsOf("overall", deck, n) # {}
        /\ Has(day2_stats, deck) <=> RecordsOf("day2", deck, n) # {}
        /\ Has(conv_stats, deck) <=> RecordsOf("conversion", deck, n) # {}
        /\ Has(overall_stats, deck) =>
              At(overall_stats, deck) =
                  [deck    |-> deck,
                   wins    |-> Total("overall", "wins", deck, n),
                   losses  |-> Total("overall", "losses", deck, n),
                   ties    |-> Total("overall", "ties", deck, n),
                   players |-> Total("overall", "players", deck, n)]
        /\ Has(day2_stats, deck) =>
              At(day2_stats, deck) =
                  [deck    |-> deck,
                   wins    |-> Total("day2", "wins", deck, n),
                   losses  |-> Total("day2", "losses", deck, n),
                   ties    |-> Total("day2", "ties", deck, n),
                   players |-> Total("day2", "players", deck, n)]
        /\ Has(conv_stats, deck) =>
              At(conv_stats, deck) =
                  [deck |-> deck,
                   day1 |-> Total("conversion", "day1_players", deck, n),
                   day2 |-> Total("conversion", "day2_players", deck, n)]
        /\ deck_urls_global[deck] = UrlsOf(deck, n)

(***************************************************************************)
(* C2.  Aggregation is order-independent and incremental: in the fold      *)
(* stage, after any number of tournaments, every deck's overall and day-2  *)
(* wins/losses/ties/players and its conversion day1/day2 are the sums over *)
(* the set of records folded, a deck has a bucket iff some record names    *)
(* it, and folding the same tournaments in any other order gives the same  *)
(* buckets.                                                                *)
(***************************************************************************)
C2_FoldOrderIndependent ==
    pc = "aggregate" =>
        /\ AccumulatorsHold(t - 1)
        /\ \A order \in Perms(1..(t - 1)) :
              LET acc == FoldInOrder([overall |-> <<>>, day2 |-> <<>>, conv |-> <<>>], order)
              IN  /\ Entries(acc.overall) = Entries(overall_stats)
                  /\ Entries(acc.day2) = Entries(day2_stats)
                  /\ Entries(acc.conv) = Entries(conv_stats)

\* two different tournaments folded, with a deck that both list in all
\* three feeds
C2_Witness ==
    /\ t = 3
    /\ tournament_ids[1] # tournament_ids[2]
    /\ \E deck \in DeckNames :
          /\ \E p, q \in RecordsOf("overall", deck, 2) : p[1] # q[1]
          /\ \E p, q \in RecordsOf("day2", deck, 2) : p[1] # q[1]
          /\ \E p, q \in RecordsOf("conversion", deck, 2) : p[1] # q[1]
          /\ At(overall_stats, deck).wins > 0
          /\ At(conv_stats, deck).day1 > 0

(***************************************************************************)
(* C3.  Minimum-player filter: no row of the returned ranking belongs to a *)
(* deck whose accumulated overall player count is below min_players, and   *)
(* every returned row has at least one accumulated overall game.           *)
(***************************************************************************)
C3_MinPlayersFilter ==
    pc \in {"returned", "rendered"} =>
        /\ \A i \in 1..Len(base_rows) :
              /\ Has(overall_stats, base_rows[i].deck)
              /\ At(overall_stats, base_rows[i].deck).players >= min_players
              /\ At(overall_stats, base_rows[i].deck).wins
                 + At(overall_stats, base_rows[i].deck).losses
                 + At(overall_stats, base_rows[i].deck).ties >= 1
        /\ \A j \in 1..Len(results) : results[j] \in Entries(base_rows)

\* a ranking is returned while a deck with games, a perfect record so far
\* and too few players is left out
C3_Witness ==
    /\ pc = "rendered"
    /\ results # <<>>
    /\ \E deck \in Keys(overall_stats) :
          /\ At(overall_stats, deck).players < min_players
          /\ At(overall_stats, deck).wins > 0
          /\ \A i \in 1..Len(results) :
                /\ results[i].deck # deck
                /\ results[i].overall_win_pct <
                      WinPct(At(overall_stats, deck).wins, At(overall_stats, deck).ties,
                             At(overall_stats, deck).wins + At(overall_stats, deck).losses
                             + At(overall_stats, deck).ties)

(***************************************************************************)
(* C4.  A failed matchup-page fetch is skipped, not fatal: the step of a   *)
(* failed fetch changes no matchup cell, no accumulator, no row and no     *)
(* base score and leaves the run in the matchup stage; every successful    *)
(* fetch, before or after a failure, is accumulated; when the stage ends   *)
(* every url of every pool deck has been fetched exactly once; and a run   *)
(* with failed matchup fetches ends with its ranking handed over and no    *)
(* error.                                                                  *)
(***************************************************************************)
PoolUrls ==
    UNION {{<<meta_decks[i], u>> : u \in deck_urls_global[meta_decks[i]]}
           : i \in 1..Len(meta_decks)}

FailedFetches == {i \in 1..Len(fetched) : fetched[i].page = 0}

C4_State ==
    /\ pc \in {"returned", "rendered"} /\ error \in {"None", "empty"} =>
          /\ {<<fetched[i].deck, fetched[i].url>> : i \in 1..Len(fetched)} = PoolUrls
          /\ Len(fetched) = Cardinality(PoolUrls)
    /\ \A i \in 1..Len(fetched) :
          fetched[i].page # 0 =>
             LET found == ExtractMatchups(MatchupPages[fetched[i].page], fetched[i].deck,
                                          meta_decks)
             IN  \A k \in 1..Len(found) :
                    /\ Has(matchups_agg[fetched[i].deck], found[k].deck)
                    /\ At(matchups_agg[fetched[i].deck], found[k].deck).wins >= found[k].wins
                    /\ At(matchups_agg[fetched[i].deck], found[k].deck).losses >= found[k].losses
                    /\ At(matchups_agg[fetched[i].deck], found[k].deck).ties >= found[k].ties
    /\ FailedFetches # {} =>
          /\ pc \in {"matchups", "returned", "rendered"}
          /\ error = "None"
          /\ base_rows # <<>>
          /\ pc = "rendered" => results = Slice(base_rows, 10) /\ results # <<>>

C4_Step ==
    (Len(fetched') = Len(fetched) + 1 /\ fetched'[Len(fetched')].page = 0) =>
        /\ matchups_agg' = matchups_agg
        /\ overall_stats' = overall_stats
        /\ day2_stats' = day2_stats
        /\ conv_stats' = conv_stats
        /\ deck_urls_global' = deck_urls_global
        /\ base_rows' = base_rows
        /\ meta_decks' = meta_decks
        /\ meta_weight' = meta_weight
        /\ pc' = "matchups"
        /\ urls' = urls \ {fetched'[Len(fetched')].url}

C4_FailedFetchSkipped == [] C4_State /\ [][C4_Step]_vars

\* the run ended with a ranking after a url of a deck failed, another url
\* of the same deck loaded afterwards and so did a url of another deck
C4_Witness ==
    /\ pc = "rendered"
    /\ results # <<>>
    /\ \E i, j, k \in 1..Len(fetched) :
          /\ i < j /\ i < k
          /\ fetched[i].page = 0
          /\ fetched[j].page # 0 /\ fetched[j].deck = fetched[i].deck
          /\ fetched[k].page # 0 /\ fetched[k].deck # fetched[i].deck
          /\ matchups_agg[fetched[j].deck] # <<>>

(***************************************************************************)
(* What a transport failure on a primary tournament page does: it aborts   *)
(* the whole run.  The failing tournament contributes nothing to the       *)
(* overall, day-2, conversion or url accumulators (no partial fold of the  *)
(* pages that did load), no later tournament is fetched, no row, pool or   *)
(* matchup is computed, and index() reports the error and shows no         *)
(* ranking: what the tournaments before it contributed is dropped with    *)
(* the run.                                                                *)
(***************************************************************************)
PrimaryErrors == {"main", "day2", "conversion"}

PrimaryFailureAbortsRun ==
    error \in PrimaryErrors =>
        /\ pc = "rendered"
        /\ t <= Len(tournament_ids)
        /\ AccumulatorsHold(t - 1)
        /\ base_rows = <<>>
        /\ meta_decks = <<>>
        /\ fetched = <<>>
        /\ \A d \in DeckNames : matchups_agg[d] = <<>>
        /\ results = <<>>

\* the second tournament failed after the first was folded with a deck that
\* qualifies
C5_Witness ==
    /\ error \in PrimaryErrors
    /\ t = 2
    /\ \E i \in 1..Len(overall_stats) : Qualifies(overall_stats[i], min_players)

(***************************************************************************)
(* C5.  A transport failure on a primary tournament page aborts only that  *)
(* tournament's contribution: the failing tournament contributes nothing   *)
(* to the accumulators and the contributions of the other tournaments are  *)
(* not lost, so every deck that qualifies on what was folded is in the     *)
(* ranking the caller gets.                                                *)
(***************************************************************************)
C5_AsClaimed ==
    error \in PrimaryErrors =>
        /\ AccumulatorsHold(t - 1)
        /\ \A i \in 1..Len(overall_stats) :
              Qualifies(overall_stats[i], min_players) =>
                 \E j \in 1..Len(results) : results[j].deck = overall_stats[i].deck

(***************************************************************************)
(* The run replayed with the set meta_decks iterating in another order:    *)
(* the same pages, fetched with the same outcomes, accumulated deck by     *)
(* deck in that order, then scored and sorted.                             *)
(***************************************************************************)
RECURSIVE ReplayFetches(_, _, _)
ReplayFetches(agg, log, order) ==
    IF log = <<>> THEN agg
    ELSE LET f == Head(log)
         IN  ReplayFetches(
                IF f.page = 0 THEN agg
                ELSE AddMatchups(agg, f.deck, ExtractMatchups(MatchupPages[f.page], f.deck, order)),
                Tail(log), order)

FetchesOf(deck) == SelectSeq(fetched, LAMBDA f : f.deck = deck)

RECURSIVE ReplayDecks(_, _, _)
ReplayDecks(agg, todo, order) ==
    IF todo = <<>> THEN agg
    ELSE ReplayDecks(ReplayFetches(agg, FetchesOf(Head(todo)), order), Tail(todo), order)

MatrixIn(order) == ReplayDecks([d \in DeckNames |-> <<>>], order, order)

RankingIn(order) ==
    SortByFinalScore(
        ScoreRows(SortByPlayers(BuildBaseRows(overall_stats, day2_stats, conv_stats,
                                              min_players)),
                  MatrixIn(order), meta_weight, matchup_weight))

(***************************************************************************)
(* C6.  Determinism of the full pipeline: with the same tournament list,   *)
(* the same page texts, the same fetch outcomes and the same               *)
(* configuration, the run returns the same sequence of scored rows and the *)
(* same matchup matrix whatever order the meta-pool set is iterated in.    *)
(***************************************************************************)
C6_AsClaimed ==
    pc = "returned" =>
        \A order \in Perms({meta_decks[i] : i \in 1..Len(meta_decks)}) :
            /\ RankingIn(order) = base_rows
            /\ \A d \in DeckNames : Entries(MatrixIn(order)[d]) = Entries(matchups_agg[d])

\* the part of C6 the code keeps: the matrix, as a mapping, does not depend
\* on the iteration order
MatrixOrderIndependent ==
    pc = "returned" =>
        \A order \in Perms({meta_decks[i] : i \in 1..Len(meta_decks)}) :
            \A d \in DeckNames : Entries(MatrixIn(order)[d]) = Entries(matchups_agg[d])

(***************************************************************************)
(* The qualifying decks, by their position in overall_stats (the order     *)
(* their decks were first sighted in the overall records), and the rank    *)
(* order "more players first, earlier sighted first among equals".         *)
(***************************************************************************)
QualifyingAt ==
    {i \in 1..Len(overall_stats) :
        /\ overall_stats[i].players >= min_players
        /\ overall_stats[i].wins + overall_stats[i].losses + overall_stats[i].ties >= 1}

Sighted(deck) == CHOOSE i \in 1..Len(overall_stats) : overall_stats[i].deck = deck

Ahead(i, j) ==
    \/ overall_stats[i].players > overall_stats[j].players
    \/ overall_stats[i].players = overall_stats[j].players /\ i < j

TopK(k) ==
    IF k <= 0 THEN {}
    ELSE {overall_stats[j].deck :
             j \in {j \in QualifyingAt : Cardinality({i \in QualifyingAt : Ahead(i, j)}) < k}}

\* aggregate_tournaments_with_matchups has returned its rows
Returned == pc = "returned" \/ (pc = "rendered" /\ error \notin PrimaryErrors)

PoolSelected == pc = "matchups" \/ Returned

Pool == {meta_decks[i] : i \in 1..Len(meta_decks)}

(***************************************************************************)
(* C7.  Meta pool selection: for every integer meta_pool_size K the pool   *)
(* is exactly the top K qualifying decks by accumulated overall player     *)
(* count, ties going to the deck sighted earlier; all qualifying decks     *)
(* when fewer than K qualify, none when K <= 0.                            *)
(***************************************************************************)
C7_AsClaimed == PoolSelected => Pool = TopK(meta_pool_size)

\* the part of C7 the code keeps: a pool size that is not negative
TopKWhenNotNegative == PoolSelected /\ meta_pool_size >= 0 => Pool = TopK(meta_pool_size)

(***************************************************************************)
(* C8.  Final ranking order: the returned rows are in non-increasing order *)
(* of final_score, and rows with equal final_score are in the order the    *)
(* list had before the final sort: by accumulated overall player count,    *)
(* descending, and among equal player counts in the order their decks were *)
(* first sighted in the processed overall records.                         *)
(***************************************************************************)
C8_RankingOrder ==
    Returned =>
        /\ \A i \in 1..Len(base_rows), j \in 1..Len(base_rows) :
              i < j =>
                 /\ base_rows[i].final_score >= base_rows[j].final_score
                 /\ base_rows[i].final_score = base_rows[j].final_score =>
                       Ahead(Sighted(base_rows[i].deck), Sighted(base_rows[j].deck))
        /\ {base_rows[i].deck : i \in 1..Len(base_rows)}
              = {overall_stats[i].deck : i \in QualifyingAt}
        /\ Len(base_rows) = Cardinality(QualifyingAt)

\* a returned ranking with two rows of equal final_score where the deck
\* sighted later has more players, and two more of equal final_score and
\* equal players
C8_Witness ==
    /\ pc = "returned"
    /\ \E i \in 1..Len(base_rows), j \in 1..Len(base_rows) :
          /\ i < j
          /\ base_rows[i].final_score = base_rows[j].final_score
          /\ base_rows[i].players_overall > base_rows[j].players_overall
          /\ Sighted(base_rows[i].deck) > Sighted(base_rows[j].deck)
          /\ fetched # <<>>

\* C8 as claimed: rows with equal final_score are in the order in which
\* their decks were first sighted in the processed overall records.
C8_AsClaimed ==
    Returned =>
        \A i \in 1..Len(base_rows), j \in 1..Len(base_rows) :
            i < j =>
               /\ base_rows[i].final_score >= base_rows[j].final_score
               /\ base_rows[i].final_score = base_rows[j].final_score =>
                     Sighted(base_rows[i].deck) < Sighted(base_rows[j].deck)

(***************************************************************************)
(* C9.  Neutral-prior base score: every row has                            *)
(*   base_score = 0.4 * overall_win_pct + 0.4 * D + 0.2 * C                *)
(* where overall_win_pct comes from the accumulated overall wins, losses   *)
(* and ties, D is the day-2 win pct of the accumulated day-2 wins, losses  *)
(* and ties when the deck has at least one accumulated day-2 game and      *)
(* overall_win_pct otherwise, and C is accumulated day2 / day1 * 100 when  *)
(* accumulated day1 > 0 and 50 otherwise; a deck with no day-2 game and no *)
(* conversion data has base_score = 0.8 * overall_win_pct + 10.  The       *)
(* percentages printed on the pages do not enter.                          *)
(***************************************************************************)
Bucket(stats, deck, field) == IF Has(stats, deck) THEN At(stats, deck)[field] ELSE 0

Accumulators == <<overall_stats, day2_stats, conv_stats, deck_urls_global>>

\* the rows as stage 2 leaves them
C9_Rows ==
    pc = "meta" =>
    \A i \in 1..Len(base_rows) :
        LET deck == base_rows[i].deck
            w  == Bucket(overall_stats, deck, "wins")
            g  == w + Bucket(overall_stats, deck, "losses") + Bucket(overall_stats, deck, "ties")
            w2 == Bucket(day2_stats, deck, "wins")
            g2 == w2 + Bucket(day2_stats, deck, "losses") + Bucket(day2_stats, deck, "ties")
            d1 == Bucket(conv_stats, deck, "day1")
            d2 == Bucket(conv_stats, deck, "day2")
            overall_win_pct == WinPct(w, Bucket(overall_stats, deck, "ties"), g)
            D == IF g2 >= 1 THEN WinPct(w2, Bucket(day2_stats, deck, "ties"), g2)
                 ELSE overall_win_pct
            C == IF d1 > 0 THEN FMul(FDiv(FromInt(d2), FromInt(d1)), FromInt(100))
                 ELSE FromInt(50)
        IN  /\ g >= 1
            /\ base_rows[i].overall_win_pct = overall_win_pct
            /\ base_rows[i].base_score =
                  FAdd(FAdd(FMul(Lit(4, 10), overall_win_pct), FMul(Lit(4, 10), D)),
                       FMul(Lit(2, 10), C))
            /\ (g2 = 0 /\ d1 = 0) =>
                  base_rows[i].base_score = FAdd(FMul(Lit(8, 10), overall_win_pct), FromInt(10))

\* later stages keep every row's base score, and the accumulators it was
\* computed from
C9_Kept ==
    pc \in {"meta", "matchups", "returned"} =>
        /\ Accumulators' = Accumulators
        /\ Len(base_rows') = Len(base_rows)
        /\ \A i \in 1..Len(base_rows') : \E j \in 1..Len(base_rows) :
              /\ base_rows'[i].deck = base_rows[j].deck
              /\ base_rows'[i].base_score = base_rows[j].base_score
              /\ base_rows'[i].overall_win_pct = base_rows[j].overall_win_pct

C9_BaseScore == [] C9_Rows /\ [][C9_Kept]_vars

\* a ranking with a deck that has neither day-2 games nor conversion data
\* though the pages list it in both feeds, a deck with both, a deck with
\* day-2 games only whose day-2 win pct differs from its overall one
C9_Witness ==
    /\ pc = "meta"
    /\ \E i, j, k \in 1..Len(base_rows) :
          /\ Has(day2_stats, base_rows[i].deck) /\ base_rows[i].day2_win_pct = None
          /\ Has(conv_stats, base_rows[i].deck) /\ base_rows[i].conv_pct = None
          /\ base_rows[j].day2_win_pct # None /\ base_rows[j].conv_pct # None
          /\ base_rows[k].day2_win_pct # None /\ base_rows[k].conv_pct = None
          /\ base_rows[k].day2_win_pct # Some(base_rows[k].overall_win_pct)

(***************************************************************************)
(* C10.  Stage ordering: no matchup-page fetch starts before every         *)
(* tournament of the list has been folded and the meta pool has been fixed *)
(* from that full aggregate; every matchup fetch and every matchup cell is *)
(* restricted to that one pool, and neither the pool nor the accumulators  *)
(* change for the rest of the run.                                         *)
(***************************************************************************)
C10_State ==
    /\ pc = "meta" =>
          /\ t = Len(tournament_ids) + 1
          /\ AccumulatorsHold(Len(tournament_ids))
          /\ base_rows = SortByPlayers(BuildBaseRows(overall_stats, day2_stats, conv_stats,
                                                     min_players))
          /\ fetched = <<>>
    /\ pc = "aggregate" => fetched = <<>>
    /\ (pc = "matchups" \/ fetched # <<>>) =>
          /\ t = Len(tournament_ids) + 1
          /\ pc = "matchups" => Pool = MetaDecks(base_rows, meta_pool_size)
          /\ \A i \in 1..Len(fetched) : fetched[i].deck \in Pool
          /\ \A d \in DeckNames :
                matchups_agg[d] # <<>> => d \in Pool /\ Keys(matchups_agg[d]) \subseteq Pool

C10_Step ==
    /\ pc \in {"meta", "matchups", "returned", "rendered"} =>
          /\ Accumulators' = Accumulators
          /\ t' = t
    /\ pc \in {"matchups", "returned", "rendered"} =>
          /\ meta_decks' = meta_decks
          /\ meta_weight' = meta_weight
    /\ (pc = "meta" \/ (pc = "matchups" /\ pc' = "matchups")) => base_rows' = base_rows
    /\ fetched' # fetched => pc = "matchups" /\ pc' = "matchups"

C10_StageOrdering == [] C10_State /\ [][C10_Step]_vars

\* matchup pages are being fetched in a run over two different tournaments
C10_Witness ==
    /\ pc = "matchups"
    /\ Len(fetched) >= 2
    /\ Len(tournament_ids) = 2
    /\ tournament_ids[1] # tournament_ids[2]
    /\ Cardinality(Pool) >= 2

(***************************************************************************)
(* C11.  Decks outside the meta pool: every deck that passes the           *)
(* minimum-player filter and has at least one accumulated overall game but *)
(* is not in the meta pool still has its row in the returned ranking, has  *)
(* no meta weight (it weighs 0 as an opponent), is never the subject of a  *)
(* matchup fetch, has no matchup cell in either direction, and has         *)
(* matchup_score = 0 and final_score = base_score, whatever matchup_weight *)
(* is and whatever the pool decks' pages hold.                             *)
(***************************************************************************)
RowsOf(deck) == {i \in 1..Len(base_rows) : base_rows[i].deck = deck}

\* what the run holds for a deck the pool leaves out
OutsidePool(deck) ==
    /\ Cardinality(RowsOf(deck)) = 1
    /\ deck \notin DOMAIN meta_weight
    /\ \A i \in 1..Len(fetched) : fetched[i].deck # deck
    /\ matchups_agg[deck] = <<>>
    /\ \A d \in DeckNames : ~Has(matchups_agg[d], deck)
    /\ Returned =>
          \A i \in RowsOf(deck) :
              /\ base_rows[i].matchup_score = 0
              /\ base_rows[i].final_score = base_rows[i].base_score
              /\ pc = "rendered" => base_rows[i] \in Entries(results)

C11_OutsidePool ==
    PoolSelected =>
        \A j \in QualifyingAt :
            overall_stats[j].deck \notin Pool => OutsidePool(overall_stats[j].deck)

\* a ranking is returned under a non-zero matchup_weight in which a pool
\* deck has a non-zero matchup score and a qualifying deck is outside the
\* pool
C11_Witness ==
    /\ pc = "returned"
    /\ matchup_weight # 0
    /\ \E j \in QualifyingAt : overall_stats[j].deck \notin Pool
    /\ \E i \in 1..Len(base_rows) :
          /\ base_rows[i].deck \in Pool
          /\ base_rows[i].matchup_score # 0
          /\ base_rows[i].final_score # base_rows[i].base_score

\* the claim as worded, the player test alone: a deck with enough players
\* and no game at all has no row
C11_AsClaimed ==
    PoolSelected =>
        \A j \in 1..Len(overall_stats) :
            (overall_stats[j].players >= min_players /\ overall_stats[j].deck \notin Pool)
                => OutsidePool(overall_stats[j].deck)

(***************************************************************************)
(* C12.  Exact content of a matchup cell: cell(X,Y) exists iff X and Y are *)
(* distinct meta-pool decks and some successfully fetched page of X        *)
(* yielded a record against Y or some successfully fetched page of Y       *)
(* yielded a record against X; its wins are the wins-vs-Y summed over X's  *)
(* successfully fetched pages plus the losses-vs-X summed over Y's, its    *)
(* losses the mirrored sums, its ties the ties of both sides: a matchup    *)
(* reported on both decks' pages is counted once from each page.  Stated   *)
(* of the fetches made so far, in every state of the run, its end          *)
(* included.                                                               *)
(***************************************************************************)
\* fetch i succeeded and its page yielded a record against y
Yields(i, y) ==
    /\ fetched[i].page # 0
    /\ y \in Pool
    /\ y # fetched[i].deck
    /\ HasMatch(y, MatchupPages[fetched[i].page])

RecordVs(i, y) == FirstMatch(y, MatchupPages[fetched[i].page])

\* the fetches of x's pages that yielded a record against y
PagesOf(x, y) == {i \in 1..Len(fetched) : fetched[i].deck = x /\ Yields(i, y)}

CellSum(x, y, own, mirrored) ==
    SumOver([i \in PagesOf(x, y) |-> RecordVs(i, y)[own]], PagesOf(x, y))
    + SumOver([i \in PagesOf(y, x) |-> RecordVs(i, x)[mirrored]], PagesOf(y, x))

C12_CellContent ==
    \A x \in DeckNames, y \in DeckNames :
        /\ Has(matchups_agg[x], y) <=> PagesOf(x, y) \cup PagesOf(y, x) # {}
        /\ Has(matchups_agg[x], y) =>
              /\ x # y
              /\ x \in Pool
              /\ y \in Pool
              /\ At(matchups_agg[x], y).wins = CellSum(x, y, "wins", "losses")
              /\ At(matchups_agg[x], y).losses = CellSum(x, y, "losses", "wins")
              /\ At(matchups_agg[x], y).ties = CellSum(x, y, "ties", "ties")

\* a run has ended in which two pages of one deck and a page of the other
\* fed the same cell, a third fetch failed, and the cell is not balanced
C12_Witness ==
    /\ pc = "returned"
    /\ FailedFetches # {}
    /\ \E x \in DeckNames, y \in DeckNames :
          /\ Cardinality(PagesOf(x, y)) >= 2
          /\ PagesOf(y, x) # {}
          /\ At(matchups_agg[x], y).wins # At(matchups_agg[x], y).losses
          /\ At(matchups_agg[x], y).ties > 0
====
